---- MODULE Spec2Model ----
(***************************************************************************)
(* A state-machine model of libmproxy/flow.py: the flow record, the flow   *)
(* store (State), the sticky-session policies, server and client playback  *)
(* and the FlowMaster event handlers.                                      *)
(*                                                                         *)
(* Python objects are records.  A request's identity is the index of the   *)
(* flow that add_request created for it, so a flow id and the id of its    *)
(* request coincide.  Python's None/False is the record None for objects   *)
(* and NoFlow (0) for flow references.                                     *)
(***************************************************************************)
EXTENDS Integers, Sequences, FiniteSets, TLC

\* ------------------------------------------------------------------ bounds
\* Number of Flow objects the store may ever be given.
MaxReq == 2
\* Longest list of recorded flows handed to a playback engine.
MaxRec == 2
\* Number of direct calls of next_flow on one ServerPlaybackState.
MaxCalls == 4

\* ---------------------------------------------------------------- values
None == [none |-> TRUE]
NoFlow == 0

VARIABLES
    flows,              \* every Flow object created so far, by flow id
    flow_map,           \* State._flow_map: request id -> flow id
    flow_list,          \* State._flow_list
    view,               \* State.view
    limit,              \* State._limit (compiled filter or None)
    intercept,          \* State.intercept (compiled filter or None)
    server_playback,    \* FlowMaster.server_playback
    kill_nonreplay,     \* FlowMaster.kill_nonreplay
    client_playback,    \* FlowMaster.client_playback
    stickycookie_state, \* FlowMaster.stickycookie_state
    stickyauth_state,   \* FlowMaster.stickyauth_state
    workers,            \* flows with a RequestReplayThread in flight
    last,               \* how the last operation ended: msg, raised, exc, shutdown, dangling
    hist                \* history: what the playback engines were given and did

vars == << flows, flow_map, flow_list, view, limit, intercept, server_playback,
           kill_nonreplay, client_playback, stickycookie_state,
           stickyauth_state, workers, last, hist >>

\* The master, its State and every Flow as one value, so that a handler can
\* be written as the composition of the methods it calls.  ret is the value a
\* method returns (a flow, or NoFlow for None/False), raised is set when it
\* ends in an exception, shutdown when it calls self.shutdown(), and dangling
\* is the response artifact of an event whose flow is unknown.
Master ==
    [ flows |-> flows, flow_map |-> flow_map, flow_list |-> flow_list,
      view |-> view, limit |-> limit, intercept |-> intercept,
      server_playback |-> server_playback, kill_nonreplay |-> kill_nonreplay,
      client_playback |-> client_playback,
      stickycookie_state |-> stickycookie_state,
      stickyauth_state |-> stickyauth_state, workers |-> workers, hist |-> hist,
      ret |-> NoFlow, msg |-> "", raised |-> FALSE, exc |-> None, shutdown |-> FALSE,
      dangling |-> None ]

\* F applied to the value of v: an intermediate result of a handler is
\* computed once and then used.
Bind(v, F(_)) == CHOOSE y \in { F(x) : x \in {v} } : TRUE

\* ------------------------------------------------------------- sequences
Contains(s, x) == \E i \in 1..Len(s) : s[i] = x

IndexOf(s, x) == CHOOSE i \in 1..Len(s) : s[i] = x /\ \A j \in 1..(i - 1) : s[j] # x

\* list.remove(x): drops the first occurrence of x.
Remove(s, x) ==
    LET i == IndexOf(s, x)
    IN  SubSeq(s, 1, i - 1) \o SubSeq(s, i + 1, Len(s))

IsPrefix(p, s) == Len(p) <= Len(s) /\ SubSeq(s, 1, Len(p)) = p

IsProperSuffix(p, s) ==
    Len(p) < Len(s) /\ SubSeq(s, Len(s) - Len(p) + 1, Len(s)) = p

\* ------------------------------------------------------------- artifacts
\* controller.Msg.ack(data): sets the acked marker and answers the transport
\* with the message itself ("plain"), a response ("response") or None ("null").
\* reacked records an ack issued on an artifact whose marker was already set.
ack(a, how) ==
    [a EXCEPT !.acked = TRUE, !.ackkind = how, !.reacked = a.reacked \/ a.acked]

NoHeaders == [accept |-> <<>>, cookie |-> <<>>, authorization |-> <<>>]

\* proxy.Request as the transport hands it over.
Request(host, path, accept) ==
    [ kind |-> "request", host |-> host, port |-> 80, scheme |-> "http",
      method |-> "GET", path |-> path, content |-> "",
      headers |-> [NoHeaders EXCEPT !.accept = accept],
      stickycookie |-> FALSE,
      acked |-> FALSE, ackkind |-> "", reacked |-> FALSE ]

\* proxy.Response as the transport (or a replay worker) hands it over.
Response(code, setcookie) ==
    [ kind |-> "response", code |-> code, setcookie |-> setcookie,
      content |-> "", replay |-> FALSE,
      acked |-> FALSE, ackkind |-> "", reacked |-> FALSE ]

\* proxy.Error(request, msg)
Error(msg) ==
    [ kind |-> "error", msg |-> msg, acked |-> FALSE, ackkind |-> "", reacked |-> FALSE ]

\* ---------------------------------------------------------------- filters
\* filt.parse: a compiled predicate, or None for text that does not parse.
\* "~q" matches requests, "~s" matches responses, ".*" matches everything.
FilterTexts == {"~q", "~s", ".*"}

parse(txt) == IF txt \in FilterTexts THEN [pat |-> txt] ELSE None

\* Calling a compiled filter on a request or a response.
pattern(p, conn) ==
    CASE p.pat = "~q" -> conn.kind = "request"
      [] p.pat = "~s" -> conn.kind = "response"
      [] OTHER -> TRUE

\* ------------------------------------------------------------------- Flow
Flow(req) ==
    [ request |-> req, response |-> None, error |-> None,
      intercepting |-> FALSE, backup |-> None ]

match(f, p) ==
    IF p # None
    THEN IF f.response # None THEN pattern(p, f.response)
         ELSE IF f.request # None THEN pattern(p, f.request)
         ELSE FALSE
    ELSE TRUE

\* kill(): the error, the ack-with-null of the latest pending artifact.  The
\* call to master.handle_error is composed in kill below.
Flow_kill_ack(f) ==
    LET e == [f EXCEPT !.error = Error("Connection killed")]
    IN  IF e.request # None /\ ~e.request.acked
        THEN [e EXCEPT !.request = ack(@, "null")]
        ELSE IF e.response # None /\ ~e.response.acked
             THEN [e EXCEPT !.response = ack(@, "null")]
             ELSE e

Flow_intercept(f) == [f EXCEPT !.intercepting = TRUE]

Flow_accept_intercept(f) ==
    IF f.request # None
    THEN LET a == IF ~f.request.acked
                  THEN [f EXCEPT !.request = ack(@, "plain")]
                  ELSE IF f.response # None /\ ~f.response.acked
                       THEN [f EXCEPT !.response = ack(@, "plain")]
                       ELSE f
         IN  [a EXCEPT !.intercepting = FALSE]
    ELSE f

\* proxy.Request.get_state / load_state: the serializable fields of a request.
Request_get_state(r) ==
    [ host |-> r.host, port |-> r.port, scheme |-> r.scheme, method |-> r.method,
      path |-> r.path, headers |-> r.headers, content |-> r.content ]

Request_load_state(r, st) ==
    [r EXCEPT !.host = st.host, !.port = st.port, !.scheme = st.scheme,
              !.method = st.method, !.path = st.path, !.headers = st.headers,
              !.content = st.content]

\* proxy.Response.get_state / load_state / from_state
Response_get_state(r) ==
    [ code |-> r.code, setcookie |-> r.setcookie, content |-> r.content ]

Response_load_state(r, st) ==
    [r EXCEPT !.code = st.code, !.setcookie = st.setcookie, !.content = st.content]

Response_from_state(st) == Response_load_state(Response(st.code, st.setcookie), st)

\* proxy.Error.get_state / load_state / from_state
Error_get_state(e) == [ msg |-> e.msg ]

Error_load_state(e, st) == [e EXCEPT !.msg = st.msg]

Error_from_state(st) == Error(st.msg)

Flow_get_state(f, nobackup) ==
    [ request |-> IF f.request # None THEN Request_get_state(f.request) ELSE None,
      response |-> IF f.response # None THEN Response_get_state(f.response) ELSE None,
      error |-> IF f.error # None THEN Error_get_state(f.error) ELSE None,
      backup |-> IF nobackup THEN None ELSE f.backup ]

\* Flow.load_state for a flow that has a request.
Flow_load_state(f, state) ==
    [f EXCEPT
       !.backup = state.backup,
       !.request = Request_load_state(@, state.request),
       !.response = IF state.response # None
                    THEN IF @ # None THEN Response_load_state(@, state.response)
                         ELSE Response_from_state(state.response)
                    ELSE None,
       !.error = IF state.error # None
                 THEN IF @ # None THEN Error_load_state(@, state.error)
                      ELSE Error_from_state(state.error)
                 ELSE None]

Flow_modified(f) == f.backup # None

Flow_backup(f) == [f EXCEPT !.backup = Flow_get_state(f, TRUE)]

\* A revert that forgets the backup without loading it.
Flow_revert_forget(f) == [f EXCEPT !.backup = None]

Flow_revert(f) ==
    IF f.backup # None
    THEN [Flow_load_state(f, f.backup) EXCEPT !.backup = None]
    ELSE f

\* proxy.Request.from_state
Request_from_state(st) == Request_load_state(Request(st.host, st.path, <<>>), st)

\* Flow.from_state(state): a flow built from nothing but the state.
Flow_from_state(state) ==
    [ request |-> Request_from_state(state.request),
      response |-> IF state.response # None THEN Response_from_state(state.response)
                   ELSE None,
      error |-> IF state.error # None THEN Error_from_state(state.error) ELSE None,
      intercepting |-> FALSE, backup |-> state.backup ]

\* RunException(msg, returncode, errout)
RunException(msg, returncode, errout) ==
    [ type |-> "RunException", msg |-> msg, returncode |-> returncode, errout |-> errout ]

\* What the script wrote to its standard output: text that json.loads
\* rejects, JSON that is not a flow state (an empty object), or a flow state.
NotJson == [ json |-> FALSE ]

EmptyObject == [ json |-> TRUE, state |-> None ]

StateJson(state) == [ json |-> TRUE, state |-> state ]

\* Flow.run_script(path): spawned is FALSE when Popen raises OSError; p is
\* the finished child [returncode, so, se].  The result is the flow, the
\* exception raised (None when none) and the return value.
Flow_run_script(f, spawned, p) ==
    IF ~spawned
    THEN [ flow |-> Flow_backup(f), ret |-> None,
           exc |-> RunException("No such file or directory", None, None) ]
    ELSE IF p.returncode # 0
    THEN [ flow |-> Flow_backup(f), ret |-> None,
           exc |-> RunException("Script returned error code", p.returncode, p.se) ]
    ELSE IF ~p.so.json
    THEN [ flow |-> Flow_backup(f), ret |-> None,
           exc |-> RunException("Invalid response from script.", p.returncode, p.se) ]
    ELSE IF p.so.state = None
    THEN [ flow |-> Flow_backup(f), ret |-> None,
           exc |-> [ type |-> "KeyError", msg |-> "backup" ] ]
    ELSE [ flow |-> Flow_load_state(Flow_backup(f),
                                    Flow_get_state(Flow_from_state(p.so.state), FALSE)),
           ret |-> p.se, exc |-> None ]

\* Flow.replace(pattern, repl) for a pattern that matches the whole content
\* of the request, of the response and the whole message of the error.
Flow_replace(f, repl) ==
    [f EXCEPT !.request.content = repl,
              !.response = IF @ # None THEN [@ EXCEPT !.content = repl] ELSE @,
              !.error = IF @ # None THEN [@ EXCEPT !.msg = repl] ELSE @]

\* ---------------------------------------------------- StickyCookieState
\* Host names are [dot, labels]: ".example.com" is dot = TRUE with labels
\* <<"example", "com">>.  Paths are sequences of characters.
Host(dot, labels) == [dot |-> dot, labels |-> labels]

\* cookielib.is_HDN for names (no IP addresses): not empty, no leading dot.
is_HDN(h) == ~h.dot /\ h.labels # <<>>

\* cookielib.domain_match(A, B): A domain-matches B when they are equal, or
\* when A is a host name in which B = .B' occurs (A.rfind(B)) at an index
\* other than 0.
domain_match(A, B) ==
    \/ A = B
    \/ /\ is_HDN(A)
       /\ B.dot
       /\ \E i \in 2..(Len(A.labels) - Len(B.labels) + 1) :
              SubSeq(A.labels, i, i + Len(B.labels) - 1) = B.labels
       /\ is_HDN(Host(FALSE, B.labels))

\* The first morsel of a Set-Cookie header value: its name=value, and the
\* Domain and Path attributes (None and <<>> when not given).
Cookie(nv, domain, path) == [nv |-> nv, domain |-> domain, path |-> path]

StickyCookieState(flt) == [flt |-> flt, jar |-> << >>]

ckey(m, f) ==
    << IF m.domain # None THEN m.domain ELSE f.request.host,
       f.request.port,
       IF m.path # <<>> THEN m.path ELSE <<"/">> >>

\* jar[k] = m
jar_put(jar, k, m) ==
    IF k \in DOMAIN jar THEN [jar EXCEPT ![k] = m] ELSE jar @@ (k :> m)

RECURSIVE StickyCookie_response_loop(_, _, _)
StickyCookie_response_loop(jar, f, hdrs) ==
    IF hdrs = <<>> THEN jar
    ELSE LET m == Head(hdrs)
             k == ckey(m, f)
         IN  StickyCookie_response_loop(
                 IF domain_match(f.request.host, k[1]) THEN jar_put(jar, k, m) ELSE jar,
                 f, Tail(hdrs))

\* StickyCookieState.handle_response(f): the new state.
StickyCookie_handle_response(s, f) ==
    [s EXCEPT !.jar = StickyCookie_response_loop(@, f, f.response.setcookie)]

\* The test of one jar key against a request.
StickyCookie_key_matches(i, f) ==
    /\ domain_match(i[1], f.request.host)
    /\ f.request.port = i[2]
    /\ IsPrefix(i[3], f.request.path)

\* for i in self.jar.keys(): the dict's order is fixed but arbitrary; the keys
\* are visited in one fixed order.
RECURSIVE StickyCookie_request_loop(_, _, _)
StickyCookie_request_loop(jar, keys, f) ==
    IF keys = {} THEN f
    ELSE LET i == CHOOSE k \in keys : TRUE
             g == IF StickyCookie_key_matches(i, f)
                  THEN [f EXCEPT !.request.stickycookie = TRUE,
                                 !.request.headers.cookie = Append(@, jar[i])]
                  ELSE f
         IN  StickyCookie_request_loop(jar, keys \ {i}, g)

\* StickyCookieState.handle_request(f): the flow with its request changed.
StickyCookie_handle_request(s, f) ==
    IF match(f, s.flt)
    THEN StickyCookie_request_loop(s.jar, DOMAIN s.jar, f)
    ELSE f

\* ------------------------------------------------------ StickyAuthState
StickyAuthState(flt) == [flt |-> flt, hosts |-> << >>]

\* A handle_request that keeps the first Authorization value seen for a host.
StickyAuth_keep_first(s, f) ==
    IF f.request.headers.authorization # <<>>
    THEN [ state |-> [s EXCEPT !.hosts =
                        IF f.request.host \in DOMAIN @ THEN @
                        ELSE @ @@ (f.request.host :> f.request.headers.authorization)],
           flow |-> f ]
    ELSE IF match(f, s.flt) /\ f.request.host \in DOMAIN s.hosts
         THEN [ state |-> s,
                flow |-> [f EXCEPT !.request.headers.authorization = s.hosts[f.request.host]] ]
         ELSE [ state |-> s, flow |-> f ]

\* StickyAuthState.handle_request(f): the new state and the flow.
StickyAuth_handle_request(s, f) ==
    IF f.request.headers.authorization # <<>>
    THEN [ state |-> [s EXCEPT !.hosts =
                        IF f.request.host \in DOMAIN @
                        THEN [@ EXCEPT ![f.request.host] = f.request.headers.authorization]
                        ELSE @ @@ (f.request.host :> f.request.headers.authorization)],
           flow |-> f ]
    ELSE IF match(f, s.flt) /\ f.request.host \in DOMAIN s.hosts
         THEN [ state |-> s,
                flow |-> [f EXCEPT !.request.headers.authorization = s.hosts[f.request.host]] ]
         ELSE [ state |-> s, flow |-> f ]

\* --------------------------------------------------- ServerPlaybackState
\* _hash: the digest of the request's host, port, scheme, method, path and
\* content and, with an allowlist, of the listed headers' values.  SHA-256 of
\* the repr is taken to be injective, so the digest is the hashed key.
\* A fingerprint that leaves the allowlisted headers out.
hash_without_headers(headers, flow) ==
    << flow.request.host, flow.request.port, flow.request.scheme,
       flow.request.method, flow.request.path, flow.request.content >>

hash(headers, flow) ==
    LET r == flow.request
        key == << r.host, r.port, r.scheme, r.method, r.path, r.content >>
    IN  IF headers # <<>>
        THEN Append(key, [i \in 1..Len(headers) |-> << headers[i], r.headers[headers[i]] >>])
        ELSE key

\* self.fmap.setdefault(k, []).append(x)
fmap_append(fmap, k, x) ==
    IF k \in DOMAIN fmap THEN [fmap EXCEPT ![k] = Append(@, x)] ELSE fmap @@ (k :> <<x>>)

RECURSIVE fmap_build(_, _, _)
fmap_build(headers, fl, fmap) ==
    IF fl = <<>> THEN fmap
    ELSE fmap_build(headers, Tail(fl),
             IF Head(fl).response # None
             THEN fmap_append(fmap, hash(headers, Head(fl)), Head(fl))
             ELSE fmap)

ServerPlaybackState(headers, fl, exit) ==
    [ headers |-> headers, exit |-> exit, fmap |-> fmap_build(headers, fl, << >>) ]

RECURSIVE SumLen(_, _)
SumLen(fmap, keys) ==
    IF keys = {} THEN 0
    ELSE LET k == CHOOSE x \in keys : TRUE
         IN  Len(fmap[k]) + SumLen(fmap, keys \ {k})

ServerPlayback_count(sp) == SumLen(sp.fmap, DOMAIN sp.fmap)

\* A next_flow that takes the newest recorded flow of the bucket.
next_flow_newest(sp, flow) ==
    LET h == hash(sp.headers, flow)
    IN  IF h \notin DOMAIN sp.fmap \/ sp.fmap[h] = <<>>
        THEN [ state |-> sp, ret |-> None ]
        ELSE [ state |-> [sp EXCEPT !.fmap[h] = SubSeq(@, 1, Len(@) - 1)],
               ret |-> sp.fmap[h][Len(sp.fmap[h])] ]

\* next_flow(request): the state after the call and the flow returned (None
\* for a miss).
next_flow(sp, flow) ==
    LET h == hash(sp.headers, flow)
    IN  IF h \notin DOMAIN sp.fmap \/ sp.fmap[h] = <<>>
        THEN [ state |-> sp, ret |-> None ]
        ELSE [ state |-> [sp EXCEPT !.fmap[h] = Tail(@)], ret |-> Head(sp.fmap[h]) ]

\* --------------------------------------------------- ClientPlaybackState
ClientPlaybackState(fl, exit) == [ flows |-> fl, exit |-> exit, current |-> NoFlow ]

ClientPlayback_count(cp) == Len(cp.flows)

ClientPlayback_done(cp) == Len(cp.flows) = 0 /\ cp.current = NoFlow

\* A clear that releases the slot whatever flow the event was for.
ClientPlayback_clear_any(cp, fid) == [cp EXCEPT !.current = NoFlow]

ClientPlayback_clear(cp, fid) ==
    IF fid = cp.current THEN [cp EXCEPT !.current = NoFlow] ELSE cp

\* A guard of tick that does not look at the current slot.
ClientPlayback_tick_unpaced(cp) == cp.flows # <<>>

\* The guard of tick: a flow is popped only when none is current.
ClientPlayback_tick_ready(cp) == cp.flows # <<>> /\ cp.current = NoFlow

\* ------------------------------------------------------------------ State
setflow(m, fid, f) == [m EXCEPT !.flows[fid] = f]

map_get(m, rid) == IF rid \in DOMAIN m.flow_map THEN m.flow_map[rid] ELSE NoFlow

\* The view test of add_response and add_error.
view_add(m, fid) ==
    IF match(m.flows[fid], m.limit) /\ ~Contains(m.view, fid)
    THEN [m EXCEPT !.view = Append(@, fid)]
    ELSE m

add_request(m, req) ==
    LET fid == Len(m.flows) + 1
        f == Flow(req)
        a == [m EXCEPT !.flows = Append(@, f),
                       !.flow_list = Append(@, fid),
                       !.flow_map = IF fid \in DOMAIN @ THEN [@ EXCEPT ![fid] = fid]
                                    ELSE @ @@ (fid :> fid),
                       !.ret = fid]
    IN  IF match(f, m.limit) THEN [a EXCEPT !.view = Append(@, fid)] ELSE a

\* rid is resp.request.
add_response(m, rid, resp) ==
    LET fid == map_get(m, rid)
    IN  IF fid = NoFlow THEN [m EXCEPT !.ret = NoFlow]
        ELSE [view_add(setflow(m, fid, [m.flows[fid] EXCEPT !.response = resp]), fid)
                 EXCEPT !.ret = fid]

\* rid is err.request, NoFlow for an error without a request.
add_error(m, rid, err) ==
    IF rid # NoFlow
    THEN LET fid == map_get(m, rid)
         IN  IF fid = NoFlow THEN [m EXCEPT !.ret = NoFlow]
             ELSE [view_add(setflow(m, fid, [m.flows[fid] EXCEPT !.error = err]), fid)
                      EXCEPT !.ret = fid]
    ELSE [m EXCEPT !.ret = NoFlow]

recalculate_view(m) ==
    LET keep(i) == match(m.flows[i], m.limit)
    IN  IF m.limit # None
        THEN [m EXCEPT !.view = SelectSeq(m.flow_list, keep)]
        ELSE [m EXCEPT !.view = m.flow_list]

\* State.load_flows(flows): fl is a list of Flow objects read from a file.
State_load_flows(m, fl) ==
    LET n == Len(m.flows)
        ids == [i \in 1..Len(fl) |-> n + i]
        a == [m EXCEPT !.flows = @ \o fl,
                       !.flow_list = @ \o ids,
                       !.flow_map = [r \in (DOMAIN @) \cup {n + i : i \in 1..Len(fl)} |->
                                        IF r > n THEN r ELSE @[r]]]
    IN  recalculate_view(a)

\* A set_limit that drops the limit when the text does not parse.
set_limit_reset(m, txt) ==
    IF txt # "" /\ parse(txt) # None
    THEN recalculate_view([m EXCEPT !.limit = parse(txt)])
    ELSE recalculate_view([m EXCEPT !.limit = None,
                                    !.msg = IF txt # "" THEN "Invalid filter expression."
                                            ELSE ""])

\* The result (msg) is empty on success and the error string otherwise.
set_limit(m, txt) ==
    IF txt # ""
    THEN LET f == parse(txt)
         IN  IF f = None THEN [m EXCEPT !.msg = "Invalid filter expression."]
             ELSE recalculate_view([m EXCEPT !.limit = f])
    ELSE recalculate_view([m EXCEPT !.limit = None])

set_intercept(m, txt) ==
    IF txt # ""
    THEN LET f == parse(txt)
         IN  IF f = None THEN [m EXCEPT !.msg = "Invalid filter expression."]
             ELSE [m EXCEPT !.intercept = f]
    ELSE [m EXCEPT !.intercept = None]

\* list.remove raises ValueError when the flow is not in the list.
delete_flow(m, fid) ==
    LET a == IF fid \in DOMAIN m.flow_map
             THEN [m EXCEPT !.flow_map = [r \in (DOMAIN @) \ {fid} |-> @[r]]]
             ELSE m
    IN  IF ~Contains(a.flow_list, fid) THEN [a EXCEPT !.raised = TRUE]
        ELSE LET b == [a EXCEPT !.flow_list = Remove(@, fid)]
             IN  IF match(b.flows[fid], b.limit)
                 THEN IF ~Contains(b.view, fid) THEN [b EXCEPT !.raised = TRUE]
                      ELSE [b EXCEPT !.view = Remove(@, fid)]
                 ELSE b

\* for i in self._flow_list[:]: self.delete_flow(i)
RECURSIVE clear_loop(_, _)
clear_loop(m, copy) ==
    IF copy = <<>> \/ m.raised THEN m
    ELSE clear_loop(delete_flow(m, Head(copy)), Tail(copy))

clear(m) == clear_loop(m, m.flow_list)

\* for i in self._flow_list[:]: i.accept_intercept()
RECURSIVE accept_all_loop(_, _)
accept_all_loop(m, copy) ==
    IF copy = <<>> THEN m
    ELSE accept_all_loop(setflow(m, Head(copy), Flow_accept_intercept(m.flows[Head(copy)])),
                         Tail(copy))

accept_all(m) == accept_all_loop(m, m.flow_list)

\* ------------------------------------------------------------- FlowMaster
client_playback_clear(m, fid) ==
    IF m.client_playback # None
    THEN [m EXCEPT !.client_playback = ClientPlayback_clear(@, fid)]
    ELSE m

\* handle_error(r): r.ack() marks the error object, which add_error has just
\* stored in the flow when the flow is known.
handle_error(m, rid, err) ==
    Bind(add_error(m, rid, ack(err, "plain")),
         LAMBDA a : client_playback_clear(a, a.ret))

\* Flow.kill(master)
kill(m, fid) ==
    Bind(Flow_kill_ack(m.flows[fid]),
         LAMBDA k :
             Bind(handle_error(setflow(m, fid, k),
                               IF k.request # None THEN fid ELSE NoFlow, k.error),
                  LAMBDA b : setflow(b, fid, [b.flows[fid] EXCEPT
                                                 !.error = ack(k.error, "plain"),
                                                 !.intercepting = FALSE])))

\* for i in self._flow_list: i.kill(master)
RECURSIVE killall_loop(_, _)
killall_loop(m, l) ==
    IF l = <<>> THEN m ELSE killall_loop(kill(m, Head(l)), Tail(l))

killall(m) == killall_loop(m, m.flow_list)

\* proxy.Response.from_state(flow.request, rflow.response.get_state()) and
\* set_replay(): a new response object with the recorded content.
replayed(resp) ==
    [resp EXCEPT !.replay = TRUE, !.acked = FALSE, !.ackkind = "", !.reacked = FALSE]

\* ret is fid when playback has taken place and NoFlow when not.
do_server_playback(m, fid) ==
    IF m.server_playback # None
    THEN LET n == next_flow(m.server_playback, m.flows[fid])
         IN  IF n.ret = None THEN [m EXCEPT !.ret = NoFlow]
             ELSE LET f == m.flows[fid]
                      g == [f EXCEPT !.response = replayed(n.ret.response),
                                     !.request = ack(@, "response")]
                  IN  [setflow(m, fid, g) EXCEPT !.server_playback = n.state,
                                                 !.ret = fid]
    ELSE [m EXCEPT !.ret = NoFlow]

\* The sticky policies of process_new_request.
process_new_request_sticky(m, fid) ==
    LET a == IF m.stickycookie_state # None
             THEN setflow(m, fid, StickyCookie_handle_request(m.stickycookie_state,
                                                              m.flows[fid]))
             ELSE m
        sa == IF a.stickyauth_state # None
              THEN StickyAuth_handle_request(a.stickyauth_state, a.flows[fid])
              ELSE [state |-> None, flow |-> a.flows[fid]]
    IN  [setflow(a, fid, sa.flow) EXCEPT !.stickyauth_state = sa.state]

\* The end of process_new_request: pb is the master after do_server_playback.
process_new_request_miss(pb, fid) ==
    IF pb.ret = NoFlow
    THEN IF pb.kill_nonreplay
         THEN kill(pb, fid)
         ELSE setflow(pb, fid, [pb.flows[fid] EXCEPT !.request = ack(@, "plain")])
    ELSE pb

process_new_request(m, fid) ==
    Bind(process_new_request_sticky(m, fid),
         LAMBDA b : IF b.server_playback # None
                    THEN Bind(do_server_playback(b, fid),
                              LAMBDA pb : process_new_request_miss(pb, fid))
                    ELSE b)

\* fid is NoFlow when add_response returned False: f.response then raises
\* AttributeError inside StickyCookieState.handle_response.
process_new_response(m, fid) ==
    IF m.stickycookie_state # None
    THEN IF fid = NoFlow THEN [m EXCEPT !.raised = TRUE]
         ELSE [m EXCEPT !.stickycookie_state =
                            StickyCookie_handle_response(@, m.flows[fid])]
    ELSE m

handle_request(m, req) ==
    Bind(add_request(m, req),
         LAMBDA a : [process_new_request(a, a.ret) EXCEPT !.ret = a.ret])

handle_response(m, rid, resp) ==
    Bind(add_response(m, rid, resp),
         LAMBDA a :
             LET b == client_playback_clear(a, a.ret)
                 c == IF a.ret = NoFlow THEN [b EXCEPT !.dangling = ack(resp, "plain")]
                      ELSE b
             IN  [process_new_response(c, a.ret) EXCEPT !.ret = a.ret])

\* The request keeps its acked marker: set_replay only drops the request's
\* client connection, and the content is empty, so no content-length is set.
replay_request(m, fid) ==
    LET f == m.flows[fid]
    IN  IF f.intercepting THEN m
        ELSE IF f.request # None
             THEN LET g == [f EXCEPT !.response = None, !.error = None]
                  IN  Bind(process_new_request(setflow(m, fid, g), fid),
                           LAMBDA a : [a EXCEPT !.workers = @ \cup {fid}])
             ELSE m

\* self.current = master.handle_request(n.request): a is the master after
\* handle_request, a.ret the flow it returned.
ClientPlayback_tick_current(a) ==
    [a EXCEPT !.client_playback.current = a.ret, !.hist.injected = @ \cup {a.ret}]

\* The rest of tick: replay the current flow, or answer it with its recorded
\* response.
ClientPlayback_tick_replay(b, testing) ==
    IF ~testing /\ b.flows[b.client_playback.current].response = None
    THEN replay_request(b, b.client_playback.current)
    ELSE IF b.flows[b.client_playback.current].response # None
         THEN handle_response(b, b.client_playback.current,
                              b.flows[b.client_playback.current].response)
         ELSE b

\* ClientPlaybackState.tick(master, testing)
ClientPlayback_tick(m, testing) ==
    IF ClientPlayback_tick_ready(m.client_playback)
    THEN Bind(Bind(handle_request([m EXCEPT !.client_playback.flows = Tail(@)],
                                  Head(m.client_playback.flows).request),
                   ClientPlayback_tick_current),
              LAMBDA b : ClientPlayback_tick_replay(b, testing))
    ELSE m

active_flow_count(m) ==
    Cardinality({i \in 1..Len(m.flow_list) :
                    /\ m.flows[m.flow_list[i]].response = None
                    /\ m.flows[m.flow_list[i]].error = None})

\* The end of FlowMaster.tick(q): shut down when server playback is exhausted.
tick_server_exit(a) ==
    IF a.server_playback # None
       /\ a.server_playback.exit /\ ServerPlayback_count(a.server_playback) = 0
    THEN [a EXCEPT !.shutdown = TRUE]
    ELSE a

\* FlowMaster.tick(q), up to the poll of the event queue.
tick(m) ==
    Bind(IF m.client_playback # None
         THEN ClientPlayback_tick(
                 [m EXCEPT !.shutdown = /\ ClientPlayback_done(m.client_playback)
                                        /\ m.client_playback.exit
                                        /\ active_flow_count(m) = 0],
                 FALSE)
         ELSE m, tick_server_exit)

\* ----------------------------------------------------------------- inputs
example_com == Host(FALSE, <<"example", "com">>)

\* The live request of the store and acknowledgement models.
GetA == Request(example_com, <<"/", "a">>, <<"text">>)

\* Recorded flows (a saved dump): code 0 is a flow that was saved before its
\* response arrived.
Recorded(req, code) ==
    [Flow(req) EXCEPT !.response = IF code = 0 THEN None ELSE Response(code, <<>>)]

\* Lists of at most n elements of S.
RECURSIVE ListsUpTo(_, _)
ListsUpTo(S, n) ==
    IF n = 0 THEN { <<>> }
    ELSE LET shorter == ListsUpTo(S, n - 1)
         IN  shorter \cup { Append(l, x) : l \in shorter, x \in S }

\* ------------------------------------------------------------------ steps
Done(m) ==
    \E r \in {m} :
        /\ flows' = r.flows
        /\ flow_map' = r.flow_map
        /\ flow_list' = r.flow_list
        /\ view' = r.view
        /\ limit' = r.limit
        /\ intercept' = r.intercept
        /\ server_playback' = r.server_playback
        /\ kill_nonreplay' = r.kill_nonreplay
        /\ client_playback' = r.client_playback
        /\ stickycookie_state' = r.stickycookie_state
        /\ stickyauth_state' = r.stickyauth_state
        /\ workers' = r.workers
        /\ hist' = r.hist
        /\ last' = [ msg |-> r.msg, raised |-> r.raised, exc |-> r.exc,
                     shutdown |-> r.shutdown, dangling |-> r.dangling ]

Room(n) == Len(flows) + n <= MaxReq

InStore == { flow_list[i] : i \in 1..Len(flow_list) }

\* Nothing given to a playback engine, no call of next_flow, no flow injected,
\* no request shown to the sticky-auth state, no backup taken, no revert that
\* changed a flow.
NoHistory ==
    [ given |-> <<>>, calls |-> <<>>, queued |-> <<>>, injected |-> {}, seen |-> <<>>,
      backups |-> << >>, undone |-> {} ]

\* The master and its State as constructed.
Init ==
    /\ flows = <<>>
    /\ flow_map = << >>
    /\ flow_list = <<>>
    /\ view = <<>>
    /\ limit = None
    /\ intercept = None
    /\ server_playback = None
    /\ kill_nonreplay = FALSE
    /\ client_playback = None
    /\ stickycookie_state = None
    /\ stickyauth_state = None
    /\ workers = {}
    /\ last = [ msg |-> "", raised |-> FALSE, exc |-> None, shutdown |-> FALSE,
                dangling |-> None ]
    /\ hist = NoHistory

\* A request event from the transport.
HandleRequestOf(req) ==
    /\ Room(1)
    /\ LET m == handle_request(Master, req) IN Done(m)

HandleRequest(reqs) == \E req \in reqs : HandleRequestOf(req)

\* A response event: for the request of any flow created so far (a flow
\* that has left the store makes the response dangling).
HandleResponseOf(rid, resp) == Done(handle_response(Master, rid, resp))

HandleResponseWith(resps) ==
    \E rid \in 1..Len(flows), resp \in resps : HandleResponseOf(rid, resp)

HandleResponse == HandleResponseWith({ Response(200, <<>>) })

\* An error event, with or without a request.
HandleError ==
    \E rid \in 0..Len(flows) :
        LET m == handle_error(Master, rid, Error("timeout"))
        IN  Done(m)

SetLimitOf(txt) == LET m == set_limit(Master, txt) IN Done(m)

SetLimit == \E txt \in {"", "~q", "~s"} : SetLimitOf(txt)

SetInterceptOf(txt) == LET m == set_intercept(Master, txt) IN Done(m)

SetIntercept == \E txt \in {"", "~q"} : SetInterceptOf(txt)

\* State.load_flows with the flows of a dump.
LoadFlows ==
    \E fl \in { <<Recorded(GetA, 200)>>, <<Recorded(GetA, 0)>> } :
        /\ Room(Len(fl))
        /\ Done(State_load_flows(Master, fl))

DeleteFlowOf(fid) == fid \in InStore /\ Done(delete_flow(Master, fid))

DeleteFlow == \E fid \in 1..Len(flows) : DeleteFlowOf(fid)

Clear == flow_list # <<>> /\ Done(clear(Master))

Kill == \E fid \in InStore : Done(kill(Master, fid))

KillAll == flow_list # <<>> /\ Done(killall(Master))

AcceptInterceptOf(fid) ==
    /\ fid \in InStore
    /\ Done(setflow(Master, fid, Flow_accept_intercept(flows[fid])))

AcceptIntercept == \E fid \in 1..Len(flows) : AcceptInterceptOf(fid)

AcceptAll == flow_list # <<>> /\ Done(accept_all(Master))

Intercept ==
    \E fid \in InStore :
        /\ ~flows[fid].intercepting
        /\ Done(setflow(Master, fid, Flow_intercept(flows[fid])))

\* start_server_playback(flows, kill, headers, exit)
StartServerPlaybackWith(lists, allow, exits) ==
    /\ server_playback = None
    /\ \E fl \in lists, kl \in BOOLEAN, headers \in allow, exit \in exits :
          Done([Master EXCEPT !.server_playback = ServerPlaybackState(headers, fl, exit),
                              !.kill_nonreplay = kl,
                              !.hist.given = fl, !.hist.calls = <<>>])

\* start_server_playback(flows, kill, headers, exit = False)
StartServerPlayback(lists, allow) == StartServerPlaybackWith(lists, allow, {FALSE})

StopServerPlayback ==
    /\ server_playback # None
    /\ Done([Master EXCEPT !.server_playback = None,
                           !.hist.given = <<>>, !.hist.calls = <<>>])

\* set_stickyauth(txt)
SetStickyAuth ==
    \E txt \in {"", ".*", "~s", "~~"} :
        LET flt == parse(txt)
        IN  Done(IF txt # ""
                 THEN IF flt = None THEN Master
                      ELSE [Master EXCEPT !.stickyauth_state = StickyAuthState(flt),
                                          !.hist.seen = <<>>]
                 ELSE [Master EXCEPT !.stickyauth_state = None, !.hist.seen = <<>>])

\* set_stickycookie(txt)
SetStickyCookie ==
    \E txt \in {"", ".*", "~s", "~~"} :
        LET flt == parse(txt)
        IN  Done(IF txt # ""
                 THEN IF flt = None THEN Master
                      ELSE [Master EXCEPT !.stickycookie_state = StickyCookieState(flt)]
                 ELSE [Master EXCEPT !.stickycookie_state = None])

\* replay_request(f), for a flow of the store.
ReplayRequest ==
    \E fid \in InStore : Done(replay_request(Master, fid))

\* RequestReplayThread.run: the worker's response, or its error, reaches the
\* dispatcher, which handles it like any other event.
WorkerResponseOf(fid) ==
    /\ fid \in workers
    /\ LET m == handle_response([Master EXCEPT !.workers = @ \ {fid}], fid,
                                Response(200, <<>>))
       IN  Done(m)

WorkerResponse == \E fid \in 1..Len(flows) : WorkerResponseOf(fid)

WorkerErrorOf(fid) ==
    /\ fid \in workers
    /\ LET m == handle_error([Master EXCEPT !.workers = @ \ {fid}], fid,
                             Error("timeout"))
       IN  Done(m)

WorkerError == \E fid \in 1..Len(flows) : WorkerErrorOf(fid)

\* start_client_playback(flows, exit)
StartClientPlayback(lists) ==
    /\ client_playback = None
    /\ \E fl \in lists, exit \in BOOLEAN :
          Done([Master EXCEPT !.client_playback = ClientPlaybackState(fl, exit),
                              !.hist.queued = fl, !.hist.injected = {}])

StopClientPlayback ==
    /\ client_playback # None
    /\ Done([Master EXCEPT !.client_playback = None,
                           !.hist.queued = <<>>, !.hist.injected = {}])

\* FlowMaster.tick: the tick of client playback needs room for a new flow.
Tick ==
    /\ (client_playback # None /\ ClientPlayback_tick_ready(client_playback)) => Room(1)
    /\ LET m == tick(Master) IN Done(m)

\* ClientPlaybackState.tick(master, testing=True), as the tests drive it.
TestTick ==
    /\ client_playback # None
    /\ ClientPlayback_tick_ready(client_playback) => Room(1)
    /\ LET m == ClientPlayback_tick(Master, TRUE) IN Done(m)

\* A direct call of ServerPlaybackState.next_flow, logged in hist.calls.
NextFlowCall(reqs) ==
    /\ server_playback # None
    /\ Len(hist.calls) < MaxCalls
    /\ \E req \in reqs :
          LET n == next_flow(server_playback, Flow(req))
          IN  Done([Master EXCEPT
                      !.server_playback = n.state,
                      !.hist.calls = Append(@, [ h |-> hash(server_playback.headers, Flow(req)),
                                                 ret |-> n.ret ])])

\* ------------------------------------------------- the flow store (State)
\* The store under request, response and error events, the display limit,
\* deletion, loading, and a server playback that answers requests.
StoreNext ==
    \/ HandleRequest({GetA})
    \/ HandleResponse
    \/ HandleError
    \/ SetLimit
    \/ LoadFlows
    \/ DeleteFlow
    \/ Clear
    \/ StartServerPlayback({ <<Recorded(GetA, 200)>> }, { <<>> })
    \/ SetStickyCookie

SpecStore == Init /\ [][StoreNext]_vars

\* The full list restricted to the flows that match the limit, in list order.
FilteredList ==
    LET keep(i) == match(flows[i], limit) IN SelectSeq(flow_list, keep)

\* C1: after every store mutation and every event handler, view equals the
\* full flow list restricted to the flows that match the limit filter, in
\* the order of the full list.
C1_ViewIsFilteredList == view = FilteredList

\* A step of handle_response for a response whose request is not in the store.
DanglingResponseStep ==
    \E rid \in 1..Len(flows) :
        rid \notin DOMAIN flow_map /\ HandleResponseOf(rid, Response(200, <<>>))

\* C7: a dangling response is acknowledged exactly once and dropped: the
\* handler does not raise, and the store, the view and the sticky-cookie
\* jar are unchanged, whatever the master's configuration.
C7_DanglingResponseDropped ==
    [][DanglingResponseStep =>
          /\ ~last'.raised
          /\ last'.dangling # None
          /\ last'.dangling.acked /\ ~last'.dangling.reacked
          /\ UNCHANGED << flows, flow_map, flow_list, view, stickycookie_state >>]_vars

\* -------------------------------------------- acknowledgement and intercept
\* The handlers and the flow operations that acknowledge, with an intercept
\* filter and a server playback that may be configured.
AckNext ==
    \/ HandleRequest({GetA})
    \/ HandleResponse
    \/ ReplayRequest
    \/ Kill
    \/ KillAll
    \/ Intercept
    \/ AcceptIntercept
    \/ AcceptAll
    \/ SetIntercept
    \/ StartServerPlayback({ <<Recorded(GetA, 200)>> }, { <<>> })
    \/ StopServerPlayback

SpecAck == Init /\ [][AckNext]_vars

\* C2: no request or response artifact is acknowledged more than once: every
\* ack is issued on an artifact whose acked marker is still false.
C2_NoSecondAck ==
    /\ \A i \in 1..Len(flows) :
          /\ ~flows[i].request.reacked
          /\ flows[i].response # None => ~flows[i].response.reacked
    /\ last.dangling # None => ~last.dangling.reacked

\* The acknowledgement handle_request owes the request of flow f: with the
\* replayed response on a hit, with null on a miss under kill_nonreplay, and
\* plain otherwise.
OwedAck(f) ==
    IF f.response # None /\ f.response.replay THEN "response"
    ELSE IF server_playback # None /\ kill_nonreplay THEN "null"
    ELSE "plain"

\* The flow that a step of handle_request has just created.
NewFlow == flows'[Len(flows')]

\* C3: when handle_request returns for a request whose flow is not
\* intercepted, the request has been acknowledged: with the replayed
\* response on a hit, with null on a miss under kill_nonreplay, and with a
\* plain ack in every other case, also without server playback.
C3_RequestAcked ==
    [][(HandleRequest({GetA}) /\ ~NewFlow.intercepting) =>
          /\ NewFlow.request.acked
          /\ NewFlow.request.ackkind = OwedAck(NewFlow)]_vars

\* The request of flow i goes from unacknowledged to acknowledged in this step.
RequestGetsAcked(i) == ~flows[i].request.acked /\ flows'[i].request.acked

\* C4: with an intercept filter that matches the request's flow, after
\* handle_request the flow is intercepting and the request is not
\* acknowledged; the acknowledgement comes only from a later
\* accept_intercept or kill, after which intercepting is false.
C4_InterceptWithholdsAck ==
    /\ [][(HandleRequest({GetA}) /\ intercept # None
                                 /\ pattern(intercept, NewFlow.request)) =>
             /\ NewFlow.intercepting
             /\ ~NewFlow.request.acked]_vars
    /\ [][\A i \in 1..Len(flows) :
             (flows[i].intercepting /\ RequestGetsAcked(i)) =>
                 /\ (AcceptIntercept \/ AcceptAll \/ Kill \/ KillAll)
                 /\ ~flows'[i].intercepting]_vars


\* ---------------------------------------------------------- server playback
GetAjson == Request(example_com, <<"/", "a">>, <<"json">>)

GetB == Request(example_com, <<"/", "b">>, <<"text">>)

\* A dump: two answers to GetA, one to GetAjson, and a flow without response.
RecordedPlayback ==
    { Recorded(GetA, 200), Recorded(GetA, 201), Recorded(GetAjson, 202), Recorded(GetA, 0) }

\* A ServerPlaybackState built from a dump, with or without the Accept
\* header in the fingerprint, and then asked for flows.
ServerPlaybackNext ==
    \/ StartServerPlayback(ListsUpTo(RecordedPlayback, MaxRec), { <<>>, <<"accept">> })
    \/ NextFlowCall({GetA, GetAjson, GetB})
    \/ StopServerPlayback

SpecServerPlayback == Init /\ [][ServerPlaybackNext]_vars

\* The response-bearing flows with fingerprint h that the playback state was
\* given, in the order given.
GivenFor(h) ==
    LET has(f) == f.response # None /\ hash(server_playback.headers, f) = h
    IN  SelectSeq(hist.given, has)

\* The number of calls with fingerprint h among the first i calls.
CallsFor(h, i) == Cardinality({ j \in 1..i : hist.calls[j].h = h })

\* C5: server playback is FIFO per fingerprint: the first k calls of
\* next_flow with fingerprint h return the k response-bearing flows given
\* with that fingerprint, in insertion order and each once; every later call
\* misses; calls with other fingerprints do not change this.
C5_PlaybackFifo ==
    server_playback # None =>
        \A i \in 1..Len(hist.calls) :
            LET h == hist.calls[i].h
                n == CallsFor(h, i)
            IN  hist.calls[i].ret = IF n <= Len(GivenFor(h)) THEN GivenFor(h)[n] ELSE None

\* Two recorded answers served in order, a call with another fingerprint in
\* between, then a miss.
C5_Witness ==
    /\ server_playback # None
    /\ Len(hist.calls) = 4
    /\ hist.calls[1].ret = Recorded(GetA, 201)
    /\ hist.calls[2].h # hist.calls[1].h
    /\ hist.calls[3].ret = Recorded(GetA, 200)
    /\ hist.calls[4].h = hist.calls[1].h
    /\ hist.calls[4].ret = None


\* ---------------------------------------------------------- client playback
\* Client playback of a dump through the master: ticks, the outcomes of the
\* replay workers, response and error events, kills, and a server playback
\* that answers GetA.
ClientPlaybackNext ==
    \/ StartClientPlayback(ListsUpTo({ Recorded(GetA, 200), Recorded(GetB, 200) }, MaxRec))
    \/ Tick
    \/ TestTick
    \/ WorkerResponse
    \/ WorkerError
    \/ HandleResponse
    \/ Kill
    \/ StartServerPlayback({ <<Recorded(GetA, 200)>> }, { <<>> })

SpecClientPlayback == Init /\ [][ClientPlaybackNext]_vars

\* The injected flows that have neither a response nor an error yet.
InFlight ==
    { f \in hist.injected : flows[f].response = None /\ flows[f].error = None }

\* C6: at most one injected flow occupies the current slot: the slot is
\* empty or holds an injected flow, and no injected flow other than the
\* current one is still without response and error; done() is true exactly
\* when the queue is empty and the current slot is empty.
C6_OneCurrent ==
    client_playback # None =>
        /\ client_playback.current = NoFlow \/ client_playback.current \in hist.injected
        /\ InFlight \subseteq { client_playback.current }
        /\ ClientPlayback_done(client_playback) <=>
              (ClientPlayback_count(client_playback) = 0 /\ client_playback.current = NoFlow)

\* The first injected flow is current and awaits its response while the
\* second one waits in the queue.
C6_Witness ==
    /\ client_playback # None
    /\ client_playback.current # NoFlow
    /\ InFlight = { client_playback.current }
    /\ ClientPlayback_count(client_playback) = 1
    /\ ~ClientPlayback_done(client_playback)


\* ------------------------------------------------------------ sticky cookies
foo_example_com == Host(FALSE, <<"foo", "example", "com">>)

other_org == Host(FALSE, <<"other", "org">>)

dot_example_com == Host(TRUE, <<"example", "com">>)

\* A GET of path on host:port, with the Authorization header auth.
StickyRequest(host, port, path, auth) ==
    [Request(host, path, <<>>) EXCEPT !.port = port, !.headers.authorization = auth]

CookieRequests ==
    { StickyRequest(example_com, 80, <<"/", "x">>, <<>>),
      StickyRequest(foo_example_com, 80, <<"/", "x">>, <<>>),
      StickyRequest(foo_example_com, 8080, <<"/", "x">>, <<>>),
      StickyRequest(foo_example_com, 80, <<"/">>, <<>>),
      StickyRequest(other_org, 80, <<"/", "x">>, <<>>) }

\* Responses that set "sid=1; Domain=.example.com; Path=/", a cookie without
\* attributes, and "sid=3; Domain=.example.com; Path=/x".
CookieResponses ==
    { Response(200, << Cookie("sid=1", dot_example_com, <<"/">>) >>),
      Response(200, << Cookie("sid=2", None, <<>>) >>),
      Response(200, << Cookie("sid=3", dot_example_com, <<"/", "x">>) >>) }

\* The master with a sticky-cookie policy under request and response events.
StickyCookieNext ==
    \/ SetStickyCookie
    \/ HandleRequest(CookieRequests)
    \/ HandleResponseWith(CookieResponses)

SpecStickyCookie == Init /\ [][StickyCookieNext]_vars

\* The host has d as a domain suffix, or equals d.
HostUnderDomain(host, d) ==
    host = d \/ (d.dot /\ IsProperSuffix(d.labels, host.labels))

\* C8: once a cookie is stored under key (d, p, pt), every later request that
\* matches the sticky filter, whose host has d as a domain suffix or equals
\* d, whose port is p and whose path starts with pt gets that cookie
\* appended to its Cookie header and its stickycookie marker set.
C8_StickyCookieSent ==
    [][\A req \in CookieRequests :
          (HandleRequestOf(req) /\ stickycookie_state # None
                                /\ match(Flow(req), stickycookie_state.flt)) =>
              \A k \in DOMAIN stickycookie_state.jar :
                  ( /\ HostUnderDomain(req.host, k[1])
                    /\ req.port = k[2]
                    /\ IsPrefix(k[3], req.path) ) =>
                      /\ Contains(NewFlow.request.headers.cookie, stickycookie_state.jar[k])
                      /\ NewFlow.request.stickycookie]_vars

\* -------------------------------------------------------------- sticky auth
AuthRequests ==
    { StickyRequest(h, 80, <<"/", "x">>, a) :
        h \in {example_com, other_org}, a \in { <<>>, <<"Basic A">>, <<"Basic B">> } }

\* A direct call of StickyAuthState.handle_request on a flow for req, logged
\* in hist.seen with the request the call leaves behind.
StickyAuthCall(reqs) ==
    /\ stickyauth_state # None
    /\ Len(hist.seen) < MaxCalls
    /\ \E req \in reqs :
          LET sa == StickyAuth_handle_request(stickyauth_state, Flow(req))
          IN  Done([Master EXCEPT
                      !.stickyauth_state = sa.state,
                      !.hist.seen = Append(@, [ req |-> req, ret |-> sa.flow.request ])])

\* A sticky-auth policy shown a sequence of requests.
StickyAuthNext ==
    \/ SetStickyAuth
    \/ StickyAuthCall(AuthRequests)

SpecStickyAuth == Init /\ [][StickyAuthNext]_vars

\* The calls before the i-th that carried an Authorization header for the
\* host of the i-th.
EarlierAuth(i) ==
    { j \in 1..(i - 1) : /\ hist.seen[j].req.host = hist.seen[i].req.host
                         /\ hist.seen[j].req.headers.authorization # <<>> }

MostRecent(S) == CHOOSE j \in S : \A k \in S : k <= j

\* C9: a filter-matching request to host h that carries no Authorization
\* header is given the value of the most recent Authorization-carrying
\* request to h; a value seen only for another host is not given to it.
C9_StickyAuthInjected ==
    stickyauth_state # None =>
        \A i \in 1..Len(hist.seen) :
            hist.seen[i].req.headers.authorization = <<>> =>
                hist.seen[i].ret.headers.authorization =
                    IF match(Flow(hist.seen[i].req), stickyauth_state.flt) /\ EarlierAuth(i) # {}
                    THEN hist.seen[MostRecent(EarlierAuth(i))].req.headers.authorization
                    ELSE <<>>

\* Host example.com was seen with "Basic A" and then with "Basic B", another
\* host with "Basic A", and a request to example.com without the header was
\* given "Basic B".
C9_Witness ==
    /\ stickyauth_state # None
    /\ Len(hist.seen) = 4
    /\ hist.seen[1].req = StickyRequest(example_com, 80, <<"/", "x">>, <<"Basic A">>)
    /\ hist.seen[2].req = StickyRequest(example_com, 80, <<"/", "x">>, <<"Basic B">>)
    /\ hist.seen[3].req = StickyRequest(other_org, 80, <<"/", "x">>, <<"Basic A">>)
    /\ hist.seen[4].req = StickyRequest(example_com, 80, <<"/", "x">>, <<>>)
    /\ hist.seen[4].ret.headers.authorization = <<"Basic B">>

\* ------------------------------------------------------- backup and revert
\* backup() on a stored flow; the flow as it is at that moment is remembered.
BackupOf(fid) ==
    /\ fid \in InStore
    /\ Done([setflow(Master, fid, Flow_backup(flows[fid])) EXCEPT
                !.hist.backups = [i \in (DOMAIN @) \cup {fid} |->
                                     IF i = fid THEN flows[fid] ELSE @[i]]])

Backup == \E fid \in 1..Len(flows) : BackupOf(fid)

\* revert() on a stored flow; hist.undone tells whether the last revert of
\* the flow changed its request, response or error.
RevertOf(fid) ==
    /\ fid \in InStore
    /\ LET g == Flow_revert(flows[fid])
       IN  Done([setflow(Master, fid, g) EXCEPT
                   !.hist.backups = [i \in (DOMAIN @) \ {fid} |-> @[i]],
                   !.hist.undone = IF Flow_get_state(g, TRUE) # Flow_get_state(flows[fid], TRUE)
                                   THEN @ \cup {fid} ELSE @ \ {fid}])

Revert == \E fid \in 1..Len(flows) : RevertOf(fid)

\* replace(pattern, repl) on a stored flow.
Replace ==
    \E fid \in InStore, repl \in {"a", "b"} :
        Done(setflow(Master, fid, Flow_replace(flows[fid], repl)))

\* One flow under response and error events, edits, backup and revert.
FlowNext ==
    \/ (flows = <<>> /\ HandleRequest({GetA}))
    \/ HandleResponse
    \/ HandleError
    \/ Replace
    \/ Backup
    \/ Revert

SpecFlow == Init /\ [][FlowNext]_vars

\* The request, response and error of a flow, without the acknowledgement
\* markers of the transport.
Values(f) ==
    [ request |-> [ host |-> f.request.host, port |-> f.request.port,
                    scheme |-> f.request.scheme, method |-> f.request.method,
                    path |-> f.request.path, headers |-> f.request.headers,
                    content |-> f.request.content ],
      response |-> IF f.response = None THEN None
                   ELSE [ code |-> f.response.code, setcookie |-> f.response.setcookie,
                          content |-> f.response.content ],
      error |-> IF f.error = None THEN None ELSE [ msg |-> f.error.msg ] ]

\* C10: modified() is true exactly when a backup is stored; revert() with a
\* stored backup restores request, response and error to the values they had
\* when the backup was taken and clears the backup; revert() with no stored
\* backup changes nothing.
C10_BackupRevert ==
    /\ [](\A fid \in 1..Len(flows) : Flow_modified(flows[fid]) <=> fid \in DOMAIN hist.backups)
    /\ [][\A fid \in 1..Len(flows) :
             RevertOf(fid) =>
                 IF fid \in DOMAIN hist.backups
                 THEN /\ Values(flows'[fid]) = Values(hist.backups[fid])
                      /\ ~Flow_modified(flows'[fid])
                 ELSE flows' = flows]_vars

\* A flow got a response after its backup, and the revert took the flow back
\* to the request alone.
C10_Witness ==
    /\ 1 \in hist.undone
    /\ ~Flow_modified(flows[1])
    /\ flows[1].response = None
    /\ flows[1].request.content = ""
    /\ 1 \notin DOMAIN hist.backups

\* C11: backup() on a flow that already holds a backup leaves the stored
\* backup unchanged, so that a later revert() brings back the state from
\* before the first backup().
C11_BackupKeepsFirst ==
    [][\A fid \in 1..Len(flows) :
          (BackupOf(fid) /\ Flow_modified(flows[fid])) =>
              flows'[fid].backup = flows[fid].backup]_vars

\* ------------------------------------------------------------- run_script
\* The outputs of a script given the flow on its standard input: garbage, an
\* empty JSON object, the state it was given, or that state with the content
\* of the request rewritten.
ScriptOutputs(f) ==
    { NotJson, EmptyObject,
      StateJson(Flow_get_state(Flow_backup(f), FALSE)),
      StateJson([Flow_get_state(Flow_backup(f), FALSE) EXCEPT !.request.content = "s"]) }

\* run_script on a stored flow with a script that exits with returncode
\* after writing so and se.
RunScriptOf(fid, spawned, returncode, so, se) ==
    /\ fid \in InStore
    /\ LET r == Flow_run_script(flows[fid], spawned,
                                [returncode |-> returncode, so |-> so, se |-> se])
       IN  Done([setflow(Master, fid, r.flow) EXCEPT
                   !.raised = r.exc # None, !.exc = r.exc,
                   !.hist.backups = [i \in (DOMAIN @) \cup {fid} |->
                                        IF i = fid THEN flows[fid] ELSE @[i]]])

RunScript ==
    \E fid \in 1..Len(flows), spawned \in BOOLEAN, returncode \in {0, 2},
       se \in {"", "boom"} :
        \E so \in ScriptOutputs(flows[fid]) :
            RunScriptOf(fid, spawned, returncode, so, se)

\* One flow under a response event, edits, scripts and revert.
ScriptNext ==
    \/ (flows = <<>> /\ HandleRequest({GetA}))
    \/ HandleResponse
    \/ Replace
    \/ RunScript
    \/ Revert

SpecScript == Init /\ [][ScriptNext]_vars

\* C12: when run_script fails (the child exits with a nonzero status, or its
\* output does not parse as a flow snapshot) a script error with the exit
\* status and the error-stream bytes is raised, request, response and error
\* are as before the call, a backup is stored, and revert() leaves the flow
\* in its state from before the script.
C12_ScriptFailure ==
    [][\A fid \in 1..Len(flows), returncode \in {0, 2}, se \in {"", "boom"} :
          \A so \in ScriptOutputs(flows[fid]) :
              ( /\ RunScriptOf(fid, TRUE, returncode, so, se)
                /\ (returncode # 0 \/ so \in {NotJson, EmptyObject}) ) =>
                  /\ last'.exc # None
                  /\ last'.exc.type = "RunException"
                  /\ last'.exc.returncode = returncode
                  /\ last'.exc.errout = se
                  /\ Values(flows'[fid]) = Values(flows[fid])
                  /\ Flow_modified(flows'[fid])
                  /\ Values(Flow_revert(flows'[fid])) = Values(flows[fid])]_vars

\* ------------------------------------------------ server playback misses
KillRequests == {GetA, GetAjson, GetB}

\* The master answering live requests from a recording of GetA, with or
\* without the Accept header in the fingerprint, killing misses or not.
MissNext ==
    \/ StartServerPlayback({ <<Recorded(GetA, 200)>>, <<Recorded(GetA, 200), Recorded(GetA, 201)>> },
                           { <<>>, <<"accept">> })
    \/ HandleRequest(KillRequests)
    \/ StopServerPlayback

SpecMiss == Init /\ [][MissNext]_vars

\* Request q agrees with the recorded request r on host, port, scheme,
\* method, path, content and on the value of every allowlisted header.
SameFingerprint(r, q, headers) ==
    /\ r.host = q.host /\ r.port = q.port /\ r.scheme = q.scheme
    /\ r.method = q.method /\ r.path = q.path /\ r.content = q.content
    /\ \A i \in 1..Len(headers) : r.headers[headers[i]] = q.headers[headers[i]]

\* No recorded flow that is still to be served agrees with req.
Miss(req) ==
    \A h \in DOMAIN server_playback.fmap :
        \A i \in 1..Len(server_playback.fmap[h]) :
            ~SameFingerprint(server_playback.fmap[h][i].request, req, server_playback.headers)

\* The flow was killed on arrival: error "Connection killed", no response,
\* not intercepting, the request acknowledged once, with null.
KilledOnArrival(f) ==
    /\ f.error # None /\ f.error.msg = "Connection killed"
    /\ f.response = None
    /\ ~f.intercepting
    /\ f.request.acked /\ f.request.ackkind = "null" /\ ~f.request.reacked

\* C13: on a server-playback miss with kill_nonreplay set, handle_request
\* leaves the live flow killed (error "Connection killed", no response, not
\* intercepting, request acknowledged with null) and consumes no recorded
\* response; a request that differs from the recording only in the value of
\* an allowlisted header is such a miss.
C13_MissKilled ==
    [][\A req \in KillRequests :
          (HandleRequestOf(req) /\ server_playback # None /\ kill_nonreplay) =>
              /\ Miss(req) =>
                    /\ KilledOnArrival(NewFlow)
                    /\ ServerPlayback_count(server_playback') =
                          ServerPlayback_count(server_playback)
              /\ (req = GetAjson /\ server_playback.headers = <<"accept">>) =>
                    KilledOnArrival(NewFlow)]_vars

\* A request for GetA with another Accept value was killed while the
\* recorded answer to GetA, fingerprinted with Accept, is still to be served.
C13_Witness ==
    /\ server_playback # None /\ kill_nonreplay
    /\ server_playback.headers = <<"accept">>
    /\ ServerPlayback_count(server_playback) = 1
    /\ hist.given = <<Recorded(GetA, 200)>>
    /\ Len(flows) = 1
    /\ flows[1].request.headers.accept = <<"json">>
    /\ KilledOnArrival(flows[1])

\* ------------------------------------------------- limit and intercept
\* Filter texts: none, two that parse, one that does not.
LimitTexts == {"", "~q", "~s", "~~"}

\* The store under events and under set_limit and set_intercept with texts
\* that parse and texts that do not.
FilterNext ==
    \/ HandleRequest({GetA})
    \/ HandleResponse
    \/ HandleError
    \/ \E txt \in LimitTexts : SetLimitOf(txt)
    \/ \E txt \in LimitTexts : SetInterceptOf(txt)

SpecFilter == Init /\ [][FilterNext]_vars

\* The filter that a text stands for: None for the empty text.
FilterOf(txt) == IF txt = "" THEN None ELSE [pat |-> txt]

\* C14: when the text does not parse, set_limit and set_intercept return an
\* error string and leave limit, intercept, list, map and view as they were;
\* when set_limit succeeds the view is the list filtered by the new limit,
\* in list order.
C14_FilterSetters ==
    [][\A txt \in LimitTexts :
          /\ SetLimitOf(txt) =>
                IF txt = "~~"
                THEN /\ last'.msg = "Invalid filter expression."
                     /\ UNCHANGED <<limit, intercept, flow_list, flow_map, view, flows>>
                ELSE /\ last'.msg = ""
                     /\ limit' = FilterOf(txt)
                     /\ flow_list' = flow_list
                     /\ view' = SelectSeq(flow_list,
                                          LAMBDA i : txt = "" \/ match(flows[i], FilterOf(txt)))
          /\ SetInterceptOf(txt) =>
                IF txt = "~~"
                THEN /\ last'.msg = "Invalid filter expression."
                     /\ UNCHANGED <<limit, intercept, flow_list, flow_map, view, flows>>
                ELSE /\ last'.msg = ""
                     /\ intercept' = FilterOf(txt)
                     /\ UNCHANGED <<limit, flow_list, flow_map, view, flows>>]_vars

\* A text that does not parse was refused while a limit hides a flow.
C14_Witness ==
    /\ last.msg = "Invalid filter expression."
    /\ limit = [pat |-> "~s"]
    /\ Len(flow_list) = 2
    /\ Len(view) = 1

\* ----------------------------------------------- client playback pacing
\* The injected flows in the order of their submission.
RECURSIVE Ascending(_)
Ascending(S) ==
    IF S = {} THEN <<>>
    ELSE LET least == CHOOSE x \in S : \A y \in S : x <= y
         IN  <<least>> \o Ascending(S \ {least})

\* The requests submitted so far followed by the requests still queued.
SubmittedThenQueued ==
    [ i \in 1..Cardinality(hist.injected) |->
        Request_get_state(flows[Ascending(hist.injected)[i]].request) ]
    \o [ i \in 1..Len(client_playback.flows) |->
           Request_get_state(client_playback.flows[i].request) ]

Completed(f) == f.response # None \/ f.error # None

\* C15: client playback submits its queued flows in queue order, at most one
\* per tick, and not before the response or error of the current one has
\* been handled and the slot released by clear(); a tick while a flow is
\* current changes neither the queue nor the current slot.
C15_Pacing ==
    /\ [](client_playback # None =>
             SubmittedThenQueued =
                 [ i \in 1..Len(hist.queued) |-> Request_get_state(hist.queued[i].request) ])
    /\ [][(client_playback # None /\ hist'.injected # hist.injected) =>
             /\ Tick \/ TestTick
             /\ Cardinality(hist'.injected) = Cardinality(hist.injected) + 1
             /\ client_playback.current = NoFlow
             /\ \A f \in hist.injected : Completed(flows[f])]_vars
    /\ [][(client_playback # None /\ client_playback.current # NoFlow) =>
             /\ (Tick \/ TestTick) => client_playback' = client_playback
             /\ client_playback'.current # client_playback.current =>
                   /\ client_playback'.current = NoFlow
                   /\ Completed(flows'[client_playback.current])]_vars

\* Two flows were queued; the first was submitted, completed and released,
\* and the second is now current and awaits its outcome.
C15_Witness ==
    /\ client_playback # None
    /\ Len(hist.queued) = 2
    /\ Cardinality(hist.injected) = 2
    /\ client_playback.current = 2
    /\ ~Completed(flows[2])
    /\ Completed(flows[1])
    /\ flows[1].request.path # flows[2].request.path

\* --------------------------------------------- client playback progress
\* Client playback of a dump against a server playback that may kill what
\* it cannot answer; ticks keep coming and every replay worker reports.
ProgressNext ==
    \/ StartClientPlayback(ListsUpTo({ Recorded(GetA, 200), Recorded(GetB, 200) }, MaxRec))
    \/ StartServerPlayback({ <<Recorded(GetA, 200)>> }, { <<>> })
    \/ Tick
    \/ TestTick
    \/ WorkerResponse
    \/ WorkerError

SpecProgress ==
    /\ Init
    /\ [][ProgressNext]_vars
    /\ WF_vars(Tick)
    /\ WF_vars(TestTick)
    /\ WF_vars(WorkerResponse \/ WorkerError)

\* The current flow has its response or its error.
CurrentCompleted ==
    /\ client_playback # None
    /\ client_playback.current # NoFlow
    /\ Completed(flows[client_playback.current])

\* C16: under fair ticking, a current flow that has completed (a replayed
\* response, a kill on a playback miss, a response or error event) is
\* eventually released from the current slot, and when no injected flow
\* stays without outcome, done() eventually becomes true.
C16_Progress ==
    /\ [](CurrentCompleted => <>(client_playback # None /\ client_playback.current = NoFlow))
    /\ (<>[](client_playback # None /\ InFlight = {})) =>
           <>(client_playback # None /\ ClientPlayback_done(client_playback))

\* ------------------------------------------------- replay workers and kill
\* Live replay of stored flows, kills, and the outcomes of the workers.
ReplayNext ==
    \/ HandleRequest({GetA})
    \/ ReplayRequest
    \/ Kill
    \/ WorkerResponse
    \/ WorkerError

SpecReplay == Init /\ [][ReplayNext]_vars

\* The flow carries the error of a kill.
Killed(f) == f.error # None /\ f.error.msg = "Connection killed"

\* C17: when a flow was killed while its replay worker was in flight, the
\* worker's outcome is discarded on delivery: the flow keeps its "Connection
\* killed" error and gains no response.
C17_KilledDiscardsWorker ==
    [][\A fid \in 1..Len(flows) :
          ((WorkerResponseOf(fid) \/ WorkerErrorOf(fid)) /\ Killed(flows[fid])) =>
              /\ Killed(flows'[fid])
              /\ flows'[fid].response = None]_vars

\* --------------------------------------------------------------- deletion
\* C18: delete_flow(f), for any flow of the store, removes f from the map,
\* the list and the view without raising, whether or not f matches the
\* limit and whenever its response or error was attached; the view never
\* holds a flow that is not in the list, and after clear() map, list and
\* view are empty.
C18_DeleteFlow ==
    /\ [](\A i \in 1..Len(view) : Contains(flow_list, view[i]))
    /\ [][\A fid \in 1..Len(flows) :
             DeleteFlowOf(fid) =>
                 /\ ~last'.raised
                 /\ fid \notin DOMAIN flow_map'
                 /\ ~Contains(flow_list', fid)
                 /\ ~Contains(view', fid)]_vars
    /\ [][Clear => (flow_map' = << >> /\ flow_list' = <<>> /\ view' = <<>>)]_vars

\* ------------------------------------------------------- accept_intercept
\* C19: accept_intercept acknowledges exactly one artifact, the latest that
\* is unacknowledged: the response when one is present and unacknowledged,
\* otherwise the request when it is unacknowledged; it acknowledges nothing
\* when nothing is pending, and always leaves intercepting = false.
C19_AcceptLatest ==
    [][\A fid \in 1..Len(flows) :
          AcceptInterceptOf(fid) =>
              /\ ~flows'[fid].intercepting
              /\ IF flows[fid].response # None /\ ~flows[fid].response.acked
                 THEN /\ flows'[fid].response.acked
                      /\ flows'[fid].request = flows[fid].request
                 ELSE IF ~flows[fid].request.acked
                 THEN /\ flows'[fid].request.acked
                      /\ flows'[fid].response = flows[fid].response
                 ELSE /\ flows'[fid].request = flows[fid].request
                      /\ flows'[fid].response = flows[fid].response]_vars

\* C20: accept_all acts only on flows whose intercepting flag is set: for a
\* flow with intercepting = false the acked markers of request and response
\* are the same after accept_all as before, and nothing is acknowledged on
\* its behalf.
C20_AcceptAllFrame ==
    [][AcceptAll =>
          \A fid \in 1..Len(flows) :
              ~flows[fid].intercepting =>
                  /\ flows'[fid].request = flows[fid].request
                  /\ flows'[fid].response = flows[fid].response]_vars

\* --------------------------------------------------------- shutdown on tick
\* Client playback and server playback started with either value of their
\* exit flag, the master ticking, and the replay workers reporting.
ShutdownNext ==
    \/ StartClientPlayback(ListsUpTo({ Recorded(GetA, 200), Recorded(GetB, 200) }, MaxRec))
    \/ StartServerPlaybackWith({ <<>>, <<Recorded(GetA, 200)>> }, { <<>> }, BOOLEAN)
    \/ Tick
    \/ WorkerResponse
    \/ WorkerError

SpecShutdown == Init /\ [][ShutdownNext]_vars

\* The state in which tick may shut down for client playback: the queue and
\* the current slot are empty, the exit flag is set, no stored flow is active.
ClientShutdownState ==
    /\ client_playback # None
    /\ client_playback.flows = <<>>
    /\ client_playback.current = NoFlow
    /\ client_playback.exit
    /\ \A i \in 1..Len(flow_list) :
           flows[flow_list[i]].response # None \/ flows[flow_list[i]].error # None

\* The state in which tick may shut down for server playback: the exit flag
\* is set and no recorded flow is left.
ServerShutdownState ==
    /\ server_playback # None
    /\ server_playback.exit
    /\ ServerPlayback_count(server_playback) = 0

\* Shutdown is requested by a tick only from one of the two states: the
\* client playback state as the tick finds it, the server playback state as
\* the tick tests it, after client playback has taken its step.
C21_ShutdownStates ==
    [][(Tick /\ last'.shutdown) => (ClientShutdownState \/ ServerShutdownState')]_vars

\* C21: a tick requests shutdown only in the client playback shutdown state
\* (queue empty, current slot empty, exit flag set, no active flow in the
\* store) or in the server playback shutdown state (exit flag set, count()
\* zero), and therefore never while an injected flow is still without
\* response and without error.
C21_ShutdownOnlyWhenDone ==
    [][(Tick /\ last'.shutdown) =>
          /\ ClientShutdownState \/ ServerShutdownState'
          /\ InFlight' = {}]_vars

====
